---- MODULE Spec2Model ----
(***************************************************************************)
(* A model of wxpy's Message (wxpy/api/messages/message.py): the derived   *)
(* accessors url, text, location, get_file, the participant lookup         *)
(* _get_chat_by_user_name, hashing / equality of Message objects, and the  *)
(* forward() dispatcher with its nested helpers wrapped_send,              *)
(* download_and_send and raise_properly.                                   *)
(*                                                                         *)
(* Python strings are sequences of one-character strings, so that          *)
(* concatenation, startswith, splitext and replace are computed.  A few    *)
(* multi-character tokens stand for markup tags and for the entity "&amp;".*)
(* A Python value is a record [t, s, n, e]: t is the type tag, s the       *)
(* characters of a str, n an int (or the mantissa of a float), e the       *)
(* number of decimal places of a float.                                    *)
(***************************************************************************)
EXTENDS Integers, Sequences, FiniteSets, TLC

VARIABLES
    raw,        \* Message.raw: the payload of the message under study
    prefix,     \* forward(prefix=...)
    suffix,     \* forward(suffix=...)
    strict,     \* forward(raise_for_unsupported=...)
    pc,         \* position inside forward(): start, download, prefix, primary, suffix, returned, raised
    exc,        \* the exception forward() raised ("" when none)
    attempts,   \* every call of a chat.send_* method, in call order, with its outcome
    downloads,  \* every call of the payload's downloader, with its path and outcome
    tempDir,    \* names present in bot.temp_dir
    plan,       \* the primary send prepared by the dispatcher
    locResult,  \* outcome of Message.location
    groups,     \* bot.groups()
    friends,    \* bot.friends()
    mps,        \* bot.mps()
    resResult,  \* outcome of Message.sender / Message.receiver
    views,      \* Message objects constructed so far: views[o] is the NewMsgId of object o
    msgSet      \* a Python set holding Message objects (by object number)

fwdVars == <<raw, prefix, suffix, strict, pc, exc, attempts, downloads, tempDir, plan>>
resVars == <<groups, friends, mps, resResult>>
viewVars == <<views, msgSet>>
vars == <<raw, prefix, suffix, strict, pc, exc, attempts, downloads, tempDir, plan,
          locResult, groups, friends, mps, resResult, views, msgSet>>

-----------------------------------------------------------------------------
(* Bounds *)

\* depth of the interpreter's call stack: a call nested deeper raises RecursionError
MaxDepth == 3
\* longest file name of an Attachment payload
MaxNameLen == 3
\* number of names the temporary directory can hold
MaxTemp == 2
\* number of distinct NewMsgId values
MaxId == 2
\* number of Message objects constructed
MaxViews == 4

-----------------------------------------------------------------------------
(* Message kinds *)

TEXT == "Text"
MAP == "Map"
CARD == "Card"
NOTE == "Note"
SHARING == "Sharing"
PICTURE == "Picture"
RECORDING == "Recording"
ATTACHMENT == "Attachment"
VIDEO == "Video"
FRIENDS == "Friends"
SYSTEM == "System"
\* a discriminator that is none of the eleven kinds
UnknownKind == "Unknown"

-----------------------------------------------------------------------------
(* Python values *)

None == [t |-> "none", s |-> <<>>, n |-> 0, e |-> 0]
\* a key that the dict does not hold
Missing == [t |-> "missing", s |-> <<>>, n |-> 0, e |-> 0]
\* a downloader function placed in the Text slot by the transport
Downloader == [t |-> "callable", s |-> <<>>, n |-> 0, e |-> 0]
StrV(chars) == [t |-> "str", s |-> chars, n |-> 0, e |-> 0]
IntV(i) == [t |-> "int", s |-> <<>>, n |-> i, e |-> 0]
FloatV(m, d) == [t |-> "float", s |-> <<>>, n |-> m, e |-> d]

IsStr(v) == v.t = "str"
Callable(v) == v.t = "callable"
\* Python truth value
Truthy(v) ==
    CASE v.t = "str" -> v.s # <<>>
      [] v.t = "int" -> v.n # 0
      [] v.t = "float" -> v.n # 0
      [] v.t = "callable" -> TRUE
      [] OTHER -> FALSE

\* outcomes of a Python expression
Return(v) == [out |-> "return", v |-> v, exc |-> ""]
Raise(e) == [out |-> "raise", v |-> None, exc |-> e]

\* dict.get(key): None for a key that is not there
Get(d, k) == IF d[k].t = "missing" THEN None ELSE d[k]
\* dict[key]: KeyError for a key that is not there
Subscript(d, k) == IF d[k].t = "missing" THEN Raise("KeyError") ELSE Return(d[k])

DigitChars == <<"0", "1", "2", "3", "4", "5", "6", "7", "8", "9">>
IsDigit(c) == \E i \in 1..Len(DigitChars) : DigitChars[i] = c
DigitVal(c) == (CHOOSE i \in 1..Len(DigitChars) : DigitChars[i] = c) - 1

RECURSIVE NatChars(_)
\* the decimal digits of a natural number
NatChars(i) == IF i < 10 THEN <<DigitChars[i + 1]>> ELSE NatChars(i \div 10) \o <<DigitChars[(i % 10) + 1]>>

\* str(v) / '{}'.format(v)
PyFormat(v) ==
    CASE v.t = "str" -> v.s
      [] v.t = "int" -> IF v.n < 0 THEN <<"-">> \o NatChars(-v.n) ELSE NatChars(v.n)
      [] v.t = "callable" -> <<"<", "f", "u", "n", "c", "t", "i", "o", "n", ">">>
      [] OTHER -> <<"N", "o", "n", "e">>

-----------------------------------------------------------------------------
(* int() and float() of a str.  The characters of the model are digits, a  *)
(* sign, a dot and letters; exponents, "inf", "nan" and blanks are not     *)
(* among them.                                                             *)

RECURSIVE DigitsVal(_)
DigitsVal(chars) ==
    IF chars = <<>> THEN 0
    ELSE DigitsVal(SubSeq(chars, 1, Len(chars) - 1)) * 10 + DigitVal(chars[Len(chars)])

Unsigned(chars) == IF chars # <<>> /\ Head(chars) \in {"-", "+"} THEN Tail(chars) ELSE chars
SignOf(chars) == IF chars # <<>> /\ Head(chars) = "-" THEN -1 ELSE 1

\* int(v) of a str v
PyInt(v) ==
    LET u == Unsigned(v.s) IN
    IF u # <<>> /\ \A i \in 1..Len(u) : IsDigit(u[i])
    THEN Return(IntV(SignOf(v.s) * DigitsVal(u)))
    ELSE Raise("ValueError")

RECURSIVE NormFloat(_, _)
\* a decimal mantissa / places pair without trailing zero places: 1.50 is 1.5
NormFloat(m, d) == IF d > 0 /\ m % 10 = 0 THEN NormFloat(m \div 10, d - 1) ELSE <<m, d>>

\* float(v) of a str v
PyFloat(v) ==
    LET u == Unsigned(v.s)
        dots == {i \in 1..Len(u) : u[i] = "."}
        digits == SelectSeq(u, IsDigit)
    IN  IF /\ Cardinality(dots) <= 1
           /\ digits # <<>>
           /\ \A i \in 1..Len(u) : IsDigit(u[i]) \/ u[i] = "."
        THEN LET places == IF dots = {} THEN 0 ELSE Len(u) - (CHOOSE i \in dots : TRUE)
                 md == NormFloat(DigitsVal(digits), places)
             IN  Return(FloatV(SignOf(v.s) * md[1], md[2]))
        ELSE Raise("ValueError")

-----------------------------------------------------------------------------
(* Message.location.  An OriContent value is [t, wellformed, children]: t  *)
(* is "missing" (no such key), "none", "int" or "str"; a str is markup,    *)
(* well formed or not, whose root element has the given children, each a   *)
(* [tag, attrib]; attrib maps the six attribute names to a str or Missing. *)

LocationKeys == <<"x", "y", "scale", "maptype">>

NoAttrib ==
    [x |-> Missing, y |-> Missing, scale |-> Missing, maptype |-> Missing,
     label |-> Missing, poiname |-> Missing]

LocReturn(attrib) == [out |-> "return", exc |-> "", isNone |-> FALSE, rec |-> attrib]
LocNone == [out |-> "return", exc |-> "", isNone |-> TRUE, rec |-> NoAttrib]
LocRaise(e) == [out |-> "raise", exc |-> e, isNone |-> FALSE, rec |-> NoAttrib]

\* the index of the first child with the tag, 0 when there is none: Element.find
Find(children, tag) ==
    LET hits == {i \in 1..Len(children) : children[i].tag = tag}
    IN  IF hits = {} THEN 0 ELSE CHOOSE i \in hits : \A j \in hits : i <= j

\* float() for x and y, int() for scale and maptype
CoerceField(k, v) == IF k \in {"x", "y"} THEN PyFloat(v) ELSE PyInt(v)

RECURSIVE CoerceFrom(_, _)
\* the inner try block: the assignments run in order until one raises
CoerceFrom(attrib, i) ==
    IF i > Len(LocationKeys) THEN attrib
    ELSE LET k == LocationKeys[i]
             item == Subscript(attrib, k)
             conv == IF item.out = "raise" THEN item ELSE CoerceField(k, item.v)
         IN  IF conv.out = "raise"
             THEN attrib
             ELSE CoerceFrom([attrib EXCEPT ![k] = conv.v], i + 1)

\* a variant that gives the attributes back untouched unless all four
\* coercions succeed
Coerce_AllOrNothing(attrib) ==
    LET done == CoerceFrom(attrib, 1) IN
    IF \A i \in 1..Len(LocationKeys) : done[LocationKeys[i]].t \in {"float", "int"}
    THEN done ELSE attrib

\* the inner try block of location
Coerce(attrib) == CoerceFrom(attrib, 1)

\* the exceptions the outer try block swallows
LocationCaught == {"TypeError", "KeyError", "ValueError", "ParseError"}

\* the outer try block, before its except clause
LocationBody(r) ==
    LET content == r.OriContent IN
    IF content.t = "missing" THEN LocRaise("KeyError")
    ELSE IF content.t # "str" THEN LocRaise("TypeError")
    ELSE IF ~content.wellformed THEN LocRaise("ParseError")
    ELSE LET i == Find(content.children, "location") IN
         IF i = 0 THEN LocRaise("AttributeError")
         ELSE LocReturn(Coerce(content.children[i].attrib))

location(r) ==
    LET res == LocationBody(r) IN
    IF res.out = "raise" /\ res.exc \in LocationCaught THEN LocNone ELSE res

\* truth value of what location returned: None and the empty dict are false
LocTruthy(res) ==
    /\ ~res.isNone
    /\ \E k \in DOMAIN res.rec : res.rec[k].t # "missing"

-----------------------------------------------------------------------------
(* Accessors of Message that forward() reads *)

\* the session's own identifier, bot.self.user_name
SelfUserName == <<"@", "s">>

type(r) == r.Type

\* html.unescape: the entity token becomes the character it names
Unescape(v) == StrV([i \in 1..Len(v.s) |-> IF v.s[i] = "&amp;" THEN "&" ELSE v.s[i]])

RECURSIVE UrlCall(_, _)
\* Message.url, called at the given depth of the call stack: for a str the
\* property reads itself (html.unescape(self.url)) before it unescapes
UrlCall(r, depth) ==
    IF depth > MaxDepth THEN Raise("RecursionError")
    ELSE LET ret == Get(r, "Url") IN
         IF IsStr(ret)
         THEN LET inner == UrlCall(r, depth + 1) IN
              IF inner.out = "raise" THEN inner ELSE Return(Unescape(inner.v))
         ELSE Return(ret)

url(r) == UrlCall(r, 1)

\* Message.text for the kinds forward() sends as text.  (For Card and
\* Friends the property reads wxpy.api.chats.User; forward() never sends it.)
text(r) ==
    LET generic == LET ret == Get(r, "Text") IN IF IsStr(ret) THEN Return(ret) ELSE Return(None)
    IN  IF type(r) = MAP
        THEN LET loc == location(r) IN
             IF loc.out = "raise" THEN Raise(loc.exc)
             ELSE IF LocTruthy(loc) THEN Return(Get(loc.rec, "label"))
             ELSE generic
        ELSE generic

file_name(r) == Get(r, "FileName")
file_size(r) == Get(r, "FileSize")
media_id(r) == Get(r, "MediaId")

\* the guard of Message.get_file: a downloader in the Text slot of a media kind
HasDownloader(r) ==
    /\ Callable(Get(r, "Text"))
    /\ type(r) \in {PICTURE, RECORDING, ATTACHMENT, VIDEO}

-----------------------------------------------------------------------------
(* os.path.splitext and str.replace, as forward() uses them on file_name *)

\* str.rfind, 1-based: 0 when the character does not occur
RFind(chars, c) ==
    LET hits == {i \in 1..Len(chars) : chars[i] = c}
    IN  IF hits = {} THEN 0 ELSE CHOOSE i \in hits : \A j \in hits : j <= i

\* os.path.splitext(p)[1]: from the last dot of the last path component,
\* unless only dots precede it there
SplitExt(p) ==
    LET sepIndex == RFind(p, "/")
        dotIndex == RFind(p, ".")
    IN  IF /\ dotIndex > sepIndex
           /\ \E k \in (sepIndex + 1)..(dotIndex - 1) : p[k] # "."
        THEN SubSeq(p, dotIndex, Len(p))
        ELSE <<>>

\* chars.replace(c, '')
RemoveChar(chars, c) == SelectSeq(chars, LAMBDA x : x # c)

\* the fileext field: os.path.splitext(self.file_name)[1].replace('.', '')
FileExt(p) == RemoveChar(SplitExt(p), ".")

\* the appmsg content envelope; tags are single tokens, the four
\* substituted fields are inserted character by character, unescaped
AppMsgContent(name, size, media, ext) ==
    <<"<appmsg appid='wxeb7ec651dd0aefa9' sdkver=''>", "<title>">> \o name
    \o <<"</title>", "<des>", "</des>", "<action>", "</action>",
         "<type>", "6", "</type>", "<content>", "</content>", "<url>", "</url>",
         "<lowurl>", "</lowurl>", "<appattach>", "<totallen>">> \o size
    \o <<"</totallen>", "<attachid>">> \o media
    \o <<"</attachid>", "<fileext>">> \o ext
    \o <<"</fileext>", "</appattach>", "<extinfo>", "</extinfo>", "</appmsg>">>

AppMsgUri == "/webwxsendappmsg?fun=async&f=json"
CardUri == "/webwxsendmsg"

-----------------------------------------------------------------------------
(* forward(): the dispatcher *)

\* what one branch of the dispatcher decides
Branch(out, e, txt, content, uri, mt) ==
    [out |-> out, exc |-> e, text |-> txt, content |-> content, uri |-> uri, msg_type |-> mt]
BranchRaise(e) == Branch("raise", e, <<>>, <<>>, "", None)
BranchMsg(txt) == Branch("msg", "", txt, <<>>, "", None)
BranchRaw(content, uri, mt) == Branch("raw_msg", "", <<>>, content, uri, mt)
BranchDownload == Branch("download", "", <<>>, <<>>, "", None)
BranchUnsupported == Branch("unsupported", "", <<>>, <<>>, "", None)

TextBranch(r) ==
    LET t == text(r) IN
    IF t.out = "raise" THEN BranchRaise(t.exc) ELSE BranchMsg(PyFormat(t.v))

SharingBranch(r) ==
    LET t == text(r)
        u == url(r)
    IN  IF t.out = "raise" THEN BranchRaise(t.exc)
        ELSE IF u.out = "raise" THEN BranchRaise(u.exc)
        ELSE BranchMsg(PyFormat(t.v) \o <<"\n">> \o PyFormat(u.v))

\* self.location[key]
LocationItem(r, k) ==
    LET loc == location(r) IN
    IF loc.out = "raise" THEN Raise(loc.exc)
    ELSE IF loc.isNone THEN Raise("TypeError")
    ELSE Subscript(loc.rec, k)

MapBranch(r) ==
    LET poi == LocationItem(r, "poiname")
        label == LocationItem(r, "label")
        u == url(r)
    IN  IF poi.out = "raise" THEN BranchRaise(poi.exc)
        ELSE IF label.out = "raise" THEN BranchRaise(label.exc)
        ELSE IF u.out = "raise" THEN BranchRaise(u.exc)
        ELSE BranchMsg(PyFormat(poi.v) \o <<":", " ">> \o PyFormat(label.v)
                       \o <<"\n">> \o PyFormat(u.v))

AttachmentBranch(r) ==
    LET name == file_name(r)
        mt == Subscript(r, "MsgType")
    IN  IF ~IsStr(name) THEN BranchRaise("TypeError")
        ELSE IF mt.out = "raise" THEN BranchRaise(mt.exc)
        ELSE BranchRaw(AppMsgContent(PyFormat(name), PyFormat(file_size(r)),
                                     PyFormat(media_id(r)), FileExt(name.s)),
                       AppMsgUri, mt.v)

\* a personal card (AttrStatus set) that the session did not send itself
PersonalCardOfOther(r) ==
    /\ Truthy(Get(r, "AttrStatus"))
    /\ Get(r, "FromUserName") # StrV(SelfUserName)

CardBranch(r) ==
    LET mt == Subscript(r, "MsgType")
        content == Subscript(r, "Content")
    IN  IF PersonalCardOfOther(r) THEN BranchUnsupported
        ELSE IF mt.out = "raise" THEN BranchRaise(mt.exc)
        ELSE IF content.out = "raise" THEN BranchRaise(content.exc)
        ELSE BranchRaw(PyFormat(content.v), CardUri, mt.v)

PictureBranch(r) ==
    IF Truthy(Get(r, "HasProductId")) THEN BranchUnsupported ELSE BranchDownload

\* the if / elif chain of forward()
ForwardBranch(r) ==
    CASE type(r) = TEXT -> TextBranch(r)
      [] type(r) = SHARING -> SharingBranch(r)
      [] type(r) = MAP -> MapBranch(r)
      [] type(r) = ATTACHMENT -> AttachmentBranch(r)
      [] type(r) = CARD -> CardBranch(r)
      [] type(r) = PICTURE -> PictureBranch(r)
      [] type(r) = VIDEO -> BranchDownload
      [] type(r) = RECORDING -> BranchDownload
      [] OTHER -> BranchUnsupported

\* a variant that joins prefix and suffix on without the line breaks
WrapText_NoBreak(p, txt, sfx) ==
    (IF Truthy(p) THEN PyFormat(p) ELSE <<>>) \o txt \o (IF Truthy(sfx) THEN PyFormat(sfx) ELSE <<>>)

\* the text of a 'msg' send: prefix and suffix joined on with a line break
WrapText(p, txt, sfx) ==
    (IF Truthy(p) THEN PyFormat(p) \o <<"\n">> ELSE <<>>)
    \o txt
    \o (IF Truthy(sfx) THEN <<"\n">> \o PyFormat(sfx) ELSE <<>>)

\* one call of a chat.send_* method
Send(m, txt, path, content, uri, mt) ==
    [m |-> m, text |-> txt, path |-> path, content |-> content, uri |-> uri, msg_type |-> mt]
NoPlan == Send("", <<>>, 0, <<>>, "", None)
Attempt(call, ok) ==
    [m |-> call.m, text |-> call.text, path |-> call.path, content |-> call.content,
     uri |-> call.uri, msg_type |-> call.msg_type, ok |-> ok]

\* a variant without the final else: whatever is no Picture goes out as video
MediaMethod_Video(r) == IF type(r) = PICTURE THEN "image" ELSE "video"

\* which send_* method download_and_send picks
MediaMethod(r) ==
    IF type(r) = PICTURE THEN "image" ELSE IF type(r) = VIDEO THEN "video" ELSE "file"

\* a variant that only logs, whatever the flag
RaiseProperly_Silent(flag) == "returned"

\* where raise_properly leaves forward()
RaiseProperly(flag) == IF flag THEN "raised" ELSE "returned"

\* a variant that goes on to the suffix whatever became of the primary send
AfterPrimary_KeepGoing(call, ok) ==
    IF call.m = "msg" THEN (IF ok THEN "returned" ELSE "raised") ELSE "suffix"

\* where wrapped_send goes after the primary send
AfterPrimary(call, ok) ==
    IF ~ok THEN "raised" ELSE IF call.m = "msg" THEN "returned" ELSE "suffix"

\* where wrapped_send goes after chat.send_msg(prefix)
AfterPrefix(ok) == IF ok THEN "primary" ELSE "raised"

\* where download_and_send goes after get_file(path)
AfterDownload(ok) == IF ok THEN "prefix" ELSE "raised"

TransportError == "TransportError"

-----------------------------------------------------------------------------
(* Message._get_chat_by_user_name, Message.sender, Message.receiver *)

\* a chat object: its user_name, the class it was built as, its nick name
ChatObj(un, kind, nick) == [user_name |-> un, kind |-> kind, nick |-> nick]
NoChat == ChatObj(<<>>, "none", "")

\* wxpy.utils.wrap_user_name(user_name) of a str: {'UserName': user_name},
\* from which Chat(...) builds a reference holding nothing but the identifier
WrapUserName(un) == ChatObj(un, "chat", "")

StartsWith(chars, pre) == Len(chars) >= Len(pre) /\ SubSeq(chars, 1, Len(pre)) = pre

\* match_in_chats: the first chat of the list with that user_name, or None
MatchInChats(chats, un) ==
    LET hits == {i \in 1..Len(chats) : chats[i].user_name = un}
    IN  IF hits = {} THEN NoChat
        ELSE chats[CHOOSE i \in hits : \A j \in hits : i <= j]

ChatReturn(c) == [out |-> "return", exc |-> "", chat |-> c]
ChatRaise(e) == [out |-> "raise", exc |-> e, chat |-> NoChat]

\* a variant that looks among the official accounts before the friends
GetChatByUserName_MpFirst(un, gs, fs, ms) ==
    IF ~IsStr(un) THEN ChatRaise("AttributeError")
    ELSE LET found ==
                 IF StartsWith(un.s, <<"@", "@">>) THEN MatchInChats(gs, un.s)
                 ELSE IF un.s # <<>>
                      THEN LET m == MatchInChats(ms, un.s) IN
                           IF m = NoChat THEN MatchInChats(fs, un.s) ELSE m
                      ELSE NoChat
         IN  ChatReturn(IF found = NoChat THEN WrapUserName(un.s) ELSE found)

\* _get_chat_by_user_name over the rosters gs, fs, ms
GetChatByUserName(un, gs, fs, ms) ==
    IF ~IsStr(un) THEN ChatRaise("AttributeError")
    ELSE LET found ==
                 IF StartsWith(un.s, <<"@", "@">>) THEN MatchInChats(gs, un.s)
                 ELSE IF un.s # <<>>
                      THEN LET f == MatchInChats(fs, un.s) IN
                           IF f = NoChat THEN MatchInChats(ms, un.s) ELSE f
                      ELSE NoChat
         IN  ChatReturn(IF found = NoChat THEN WrapUserName(un.s) ELSE found)

-----------------------------------------------------------------------------
(* Message.__hash__, and the equality Message inherits from object *)

\* hash((Message, self.id)): a function of the class and the id alone
MessageHash(o) == <<"Message", views[o]>>

\* Message defines no __eq__: objects are equal when they are the same object
MessageEq(a, b) == a = b

-----------------------------------------------------------------------------
(* Payloads *)

Doc(t, wf, children) == [t |-> t, wellformed |-> wf, children |-> children]
NoDoc == Doc("missing", FALSE, <<>>)
LocElem(attrib) == [tag |-> "location", attrib |-> attrib]
OtherElem == [tag |-> "appinfo", attrib |-> NoAttrib]

BasePayload ==
    [Type |-> TEXT, Text |-> Missing, Url |-> Missing, FileName |-> Missing,
     FileSize |-> Missing, MediaId |-> Missing, MsgType |-> IntV(1),
     Content |-> StrV(<<>>), HasProductId |-> Missing, AttrStatus |-> Missing,
     FromUserName |-> StrV(<<"@", "a">>), ToUserName |-> StrV(SelfUserName),
     OriContent |-> NoDoc]

Hello == StrV(<<"h", "i">>)
Link == StrV(<<"u", "&amp;", "v">>)

\* values of a numeric attribute of the location element
AttrVals ==
    {Missing, StrV(<<"1">>), StrV(<<"1", ".", "5">>), StrV(<<"-", "2">>),
     StrV(<<"x">>), StrV(<<>>)}

GoodAttrib ==
    [x |-> StrV(<<"1", ".", "5">>), y |-> StrV(<<"-", "2">>), scale |-> StrV(<<"1">>),
     maptype |-> StrV(<<"1">>), label |-> StrV(<<"L">>), poiname |-> StrV(<<"N">>)]

Attribs ==
    {[GoodAttrib EXCEPT !.x = a, !.y = b, !.scale = c, !.maptype = d] :
        a \in AttrVals, b \in AttrVals, c \in AttrVals, d \in AttrVals}

\* OriContent values without a usable location element
BrokenDocs ==
    {NoDoc, Doc("none", FALSE, <<>>), Doc("int", FALSE, <<>>), Doc("str", FALSE, <<>>),
     Doc("str", TRUE, <<>>), Doc("str", TRUE, <<OtherElem>>)}

LocationDocs ==
    BrokenDocs
    \cup {Doc("str", TRUE, <<LocElem(a)>>) : a \in Attribs}
    \cup {Doc("str", TRUE, <<OtherElem, LocElem(a)>>) : a \in {GoodAttrib, NoAttrib}}

LocationPayloads == {[BasePayload EXCEPT !.Type = MAP, !.OriContent = d] : d \in LocationDocs}

NameChars == {"a", ".", "&"}
FileNames == UNION {[1..n -> NameChars] : n \in 1..MaxNameLen}

TextPayloads == {[BasePayload EXCEPT !.Text = t] : t \in {Hello, StrV(<<>>), Missing}}

SharingPayloads ==
    {[BasePayload EXCEPT !.Type = SHARING, !.Text = Hello, !.Url = u] : u \in {Link, Missing}}

MapPayloads ==
    {[BasePayload EXCEPT !.Type = MAP, !.Url = u, !.OriContent = d] :
        u \in {Link, Missing},
        d \in {NoDoc, Doc("str", TRUE, <<OtherElem>>), Doc("str", TRUE, <<LocElem(GoodAttrib)>>),
               Doc("str", TRUE, <<LocElem([GoodAttrib EXCEPT !.poiname = Missing])>>)}}

AttachmentPayloads ==
    {[BasePayload EXCEPT !.Type = ATTACHMENT, !.Text = Downloader, !.FileName = f,
                         !.FileSize = StrV(<<"7">>), !.MediaId = StrV(<<"@", "m">>),
                         !.MsgType = mt] :
        f \in {StrV(n) : n \in FileNames} \cup {Missing}, mt \in {IntV(49), Missing}}

CardPayloads ==
    {[BasePayload EXCEPT !.Type = CARD, !.MsgType = IntV(42), !.Content = c,
                         !.AttrStatus = a, !.FromUserName = f] :
        c \in {StrV(<<"<msg/>">>), Missing}, a \in {Missing, IntV(0), IntV(1)},
        f \in {StrV(SelfUserName), StrV(<<"@", "a">>)}}

PicturePayloads ==
    {[BasePayload EXCEPT !.Type = PICTURE, !.Text = t, !.HasProductId = h,
                         !.FileName = StrV(<<"a", ".", "a">>)] :
        t \in {Downloader, Hello, Missing}, h \in {Missing, IntV(0), IntV(1)}}

MediaPayloads ==
    {[BasePayload EXCEPT !.Type = k, !.Text = t, !.FileName = StrV(<<"a", ".", "a">>)] :
        k \in {VIDEO, RECORDING}, t \in {Downloader, Hello}}

OtherPayloads == {[BasePayload EXCEPT !.Type = k] : k \in {NOTE, SYSTEM, FRIENDS, UnknownKind}}

Payloads ==
    TextPayloads \cup SharingPayloads \cup MapPayloads \cup AttachmentPayloads
    \cup CardPayloads \cup PicturePayloads \cup MediaPayloads \cup OtherPayloads

Affixes(c) == {None, StrV(<<>>), StrV(<<c>>)}

TempNames == 1..MaxTemp

-----------------------------------------------------------------------------
(* forward(): one call, step by step.  Each call of the destination or of  *)
(* the downloader may fail with a transport error.                         *)

LocPending == [out |-> "pending", exc |-> "", isNone |-> FALSE, rec |-> NoAttrib]
ResPending == [who |-> "", out |-> "pending", exc |-> "", chat |-> NoChat]

ForwardIdle ==
    /\ prefix = None /\ suffix = None /\ strict = FALSE
    /\ pc = "idle" /\ exc = "" /\ attempts = <<>> /\ downloads = <<>>
    /\ tempDir = {} /\ plan = NoPlan
LocationIdle == locResult = LocPending
ResolveIdle == groups = <<>> /\ friends = <<>> /\ mps = <<>> /\ resResult = ResPending
ViewsIdle == views = <<>> /\ msgSet = {}

Init ==
    /\ raw \in Payloads
    /\ prefix \in Affixes("P")
    /\ suffix \in Affixes("S")
    /\ strict \in BOOLEAN
    /\ pc = "start" /\ exc = "" /\ attempts = <<>> /\ downloads = <<>>
    /\ tempDir \in {{}, {1}}
    /\ plan = NoPlan
    /\ LocationIdle /\ ResolveIdle /\ ViewsIdle

others == <<locResult, groups, friends, mps, resResult, views, msgSet>>

\* a supported kind: the primary send is prepared
Dispatch ==
    /\ pc = "start"
    /\ \E b \in {ForwardBranch(raw)} :
        /\ b.out \in {"msg", "raw_msg", "download"}
        /\ pc' = (IF b.out = "msg" THEN "primary" ELSE IF b.out = "raw_msg" THEN "prefix" ELSE "download")
        /\ plan' = (IF b.out = "msg" THEN Send("msg", WrapText(prefix, b.text, suffix), 0, <<>>, "", None)
                    ELSE IF b.out = "raw_msg" THEN Send("raw_msg", <<>>, 0, b.content, b.uri, b.msg_type)
                    ELSE plan)
    /\ UNCHANGED <<raw, prefix, suffix, strict, exc, attempts, downloads, tempDir>>
    /\ UNCHANGED others

\* an unsupported kind or condition: raise_properly
DispatchUnsupported ==
    /\ pc = "start"
    /\ \E b \in {ForwardBranch(raw)} : b.out = "unsupported"
    /\ pc' = RaiseProperly(strict)
    /\ exc' = (IF RaiseProperly(strict) = "raised" THEN "NotImplementedError" ELSE "")
    /\ UNCHANGED <<raw, prefix, suffix, strict, attempts, downloads, tempDir, plan>>
    /\ UNCHANGED others

\* an accessor raised while the dispatcher built the primary send
DispatchRaise ==
    /\ pc = "start"
    /\ \E b \in {ForwardBranch(raw)} :
        /\ b.out = "raise"
        /\ exc' = b.exc
    /\ pc' = "raised"
    /\ UNCHANGED <<raw, prefix, suffix, strict, attempts, downloads, tempDir, plan>>
    /\ UNCHANGED others

\* download_and_send: mkstemp, then get_file(path) with a downloader
DownloadFile ==
    /\ pc = "download"
    /\ HasDownloader(raw)
    /\ \E path \in TempNames \ tempDir, ok \in BOOLEAN :
        /\ tempDir' = tempDir \cup {path}
        /\ downloads' = Append(downloads, [path |-> path, ok |-> ok])
        /\ pc' = AfterDownload(ok)
        /\ exc' = (IF ok THEN "" ELSE TransportError)
        /\ plan' = (IF ok THEN Send(MediaMethod(raw), <<>>, path, <<>>, "", None) ELSE plan)
    /\ UNCHANGED <<raw, prefix, suffix, strict, attempts>>
    /\ UNCHANGED others

\* download_and_send: mkstemp, then get_file(path) raises ValueError
DownloadUnavailable ==
    /\ pc = "download"
    /\ ~HasDownloader(raw)
    /\ \E path \in TempNames \ tempDir : tempDir' = tempDir \cup {path}
    /\ pc' = "raised"
    /\ exc' = "ValueError"
    /\ UNCHANGED <<raw, prefix, suffix, strict, attempts, downloads, plan>>
    /\ UNCHANGED others

\* wrapped_send, not 'msg': chat.send_msg(prefix)
SendPrefix ==
    /\ pc = "prefix"
    /\ Truthy(prefix)
    /\ \E ok \in BOOLEAN :
        /\ attempts' = Append(attempts, Attempt(Send("msg", PyFormat(prefix), 0, <<>>, "", None), ok))
        /\ pc' = AfterPrefix(ok)
        /\ exc' = (IF ok THEN "" ELSE TransportError)
    /\ UNCHANGED <<raw, prefix, suffix, strict, downloads, tempDir, plan>>
    /\ UNCHANGED others

SkipPrefix ==
    /\ pc = "prefix"
    /\ ~Truthy(prefix)
    /\ pc' = "primary"
    /\ UNCHANGED <<raw, prefix, suffix, strict, exc, attempts, downloads, tempDir, plan>>
    /\ UNCHANGED others

\* wrapped_send: the primary send, chat.send_msg(...) or chat.send_<type>(...)
SendPrimary ==
    /\ pc = "primary"
    /\ \E ok \in BOOLEAN :
        /\ attempts' = Append(attempts, Attempt(plan, ok))
        /\ pc' = AfterPrimary(plan, ok)
        /\ exc' = (IF ok THEN "" ELSE TransportError)
    /\ UNCHANGED <<raw, prefix, suffix, strict, downloads, tempDir, plan>>
    /\ UNCHANGED others

\* wrapped_send, not 'msg': chat.send_msg(suffix)
SendSuffix ==
    /\ pc = "suffix"
    /\ Truthy(suffix)
    /\ \E ok \in BOOLEAN :
        /\ attempts' = Append(attempts, Attempt(Send("msg", PyFormat(suffix), 0, <<>>, "", None), ok))
        /\ pc' = (IF ok THEN "returned" ELSE "raised")
        /\ exc' = (IF ok THEN "" ELSE TransportError)
    /\ UNCHANGED <<raw, prefix, suffix, strict, downloads, tempDir, plan>>
    /\ UNCHANGED others

SkipSuffix ==
    /\ pc = "suffix"
    /\ ~Truthy(suffix)
    /\ pc' = "returned"
    /\ UNCHANGED <<raw, prefix, suffix, strict, exc, attempts, downloads, tempDir, plan>>
    /\ UNCHANGED others

Next ==
    \/ Dispatch
    \/ DispatchUnsupported
    \/ DispatchRaise
    \/ DownloadFile
    \/ DownloadUnavailable
    \/ SendPrefix
    \/ SkipPrefix
    \/ SendPrimary
    \/ SendSuffix
    \/ SkipSuffix

Spec == Init /\ [][Next]_vars

-----------------------------------------------------------------------------
(* Message.location on its own *)

InitLocation ==
    /\ raw \in LocationPayloads
    /\ locResult = LocPending
    /\ ForwardIdle /\ ResolveIdle /\ ViewsIdle

CallLocation ==
    /\ locResult.out = "pending"
    /\ locResult' = location(raw)
    /\ UNCHANGED fwdVars
    /\ UNCHANGED <<resVars, viewVars>>

NextLocation == CallLocation

SpecLocation == InitLocation /\ [][NextLocation]_vars

-----------------------------------------------------------------------------
(* Message.sender and Message.receiver over the session's rosters *)

Group(un) == ChatObj(un, "group", "G")
Friend(un) == ChatObj(un, "friend", "F")
MP(un) == ChatObj(un, "mp", "M")

\* the lists without repetition over a set of objects
Lists(S) ==
    UNION {{f \in [1..n -> S] : \A i, j \in 1..n : i # j => f[i] # f[j]} : n \in 0..Cardinality(S)}

GroupRosters == Lists({Group(<<"@", "@", "g">>), Group(<<"@", "@", "h">>)})
FriendRosters == Lists({Friend(<<"@", "a">>), Friend(<<"@", "b">>)})
MPRosters == Lists({MP(<<"@", "a">>), MP(<<"@", "c">>)})

UserNames ==
    {StrV(<<"@", "@", "g">>), StrV(<<"@", "@", "z">>), StrV(<<"@", "a">>),
     StrV(<<"@", "b">>), StrV(<<"@", "c">>), StrV(<<"z">>), StrV(<<>>), Missing}

InitResolve ==
    /\ raw \in {[BasePayload EXCEPT !.FromUserName = f, !.ToUserName = t] :
                    f \in UserNames, t \in UserNames}
    /\ groups \in GroupRosters
    /\ friends \in FriendRosters
    /\ mps \in MPRosters
    /\ resResult = ResPending
    /\ ForwardIdle /\ LocationIdle /\ ViewsIdle

Resolved(who, res) == [who |-> who, out |-> res.out, exc |-> res.exc, chat |-> res.chat]

Sender ==
    /\ resResult' = Resolved("sender", GetChatByUserName(Get(raw, "FromUserName"), groups, friends, mps))
    /\ UNCHANGED <<groups, friends, mps>>
    /\ UNCHANGED <<fwdVars, locResult, viewVars>>

Receiver ==
    /\ resResult' = Resolved("receiver", GetChatByUserName(Get(raw, "ToUserName"), groups, friends, mps))
    /\ UNCHANGED <<groups, friends, mps>>
    /\ UNCHANGED <<fwdVars, locResult, viewVars>>

NextResolve == Sender \/ Receiver

SpecResolve == InitResolve /\ [][NextResolve]_vars

-----------------------------------------------------------------------------
(* Message objects in a set *)

InitViews ==
    /\ raw = BasePayload
    /\ views = <<>>
    /\ msgSet = {}
    /\ ForwardIdle /\ LocationIdle /\ ResolveIdle

\* Message(raw, bot) over a payload with the given NewMsgId
NewMessage ==
    /\ Len(views) < MaxViews
    /\ \E id \in 1..MaxId : views' = Append(views, id)
    /\ UNCHANGED msgSet
    /\ UNCHANGED <<fwdVars, locResult, resVars>>

\* set.add(message): kept out when an element with the same hash equals it
SetAdd ==
    /\ \E o \in 1..Len(views) :
        msgSet' = (IF \E e \in msgSet : MessageHash(e) = MessageHash(o) /\ MessageEq(e, o)
                   THEN msgSet ELSE msgSet \cup {o})
    /\ UNCHANGED views
    /\ UNCHANGED <<fwdVars, locResult, resVars>>

NextViews == NewMessage \/ SetAdd

SpecViews == InitViews /\ [][NextViews]_vars

-----------------------------------------------------------------------------
(* Properties of forward(), checked under Spec *)

Final == pc \in {"returned", "raised"}

\* the attempts that are not plain-text sends
Primaries == {i \in 1..Len(attempts) : attempts[i].m # "msg"}

\* the roles forward() is to play towards the destination, in order, when
\* the primary send is not a text send
SandwichRoles ==
    (IF Truthy(prefix) THEN <<"prefix">> ELSE <<>>) \o <<"primary">>
    \o (IF Truthy(suffix) THEN <<"suffix">> ELSE <<>>)

AttemptPlays(a, role) ==
    CASE role = "prefix" -> a.m = "msg" /\ a.text = PyFormat(prefix)
      [] role = "suffix" -> a.m = "msg" /\ a.text = PyFormat(suffix)
      [] OTHER -> a.m \in {"image", "file", "video", "raw_msg"}

\* C1: within one forward() call the sends happen in the order prefix,
\* primary, suffix; around a non-text primary a non-empty prefix and suffix
\* are plain-text sends of their own; a text primary is a single send; and
\* no send is attempted after a send that failed, so a failed primary send
\* is never followed by the suffix send.
C1_SendOrder ==
    LET n == Len(attempts) IN
    /\ \A i \in 1..(n - 1) : attempts[i].ok
    /\ IF type(raw) \in {TEXT, SHARING, MAP}
       THEN /\ n <= 1
            /\ \A i \in 1..n : attempts[i].m = "msg"
            /\ pc = "returned" => n = 1
       ELSE /\ n <= Len(SandwichRoles)
            /\ \A i \in 1..n : AttemptPlays(attempts[i], SandwichRoles[i])
            /\ pc = "returned" => n \in {0, Len(SandwichRoles)}

\* C1 witness: the prefix was sent, the primary raw send failed, and the
\* call ended there although a suffix was given
C1_Witness ==
    /\ pc = "raised"
    /\ Truthy(suffix)
    /\ Len(attempts) = 2
    /\ attempts[1].m = "msg" /\ attempts[1].ok
    /\ attempts[2].m = "raw_msg" /\ ~attempts[2].ok

\* the conditions the dispatch table marks unsupported
C2_Unsupported ==
    \/ type(raw) \in {NOTE, SYSTEM, FRIENDS, UnknownKind}
    \/ type(raw) = PICTURE /\ Truthy(Get(raw, "HasProductId"))
    \/ /\ type(raw) = CARD
       /\ Truthy(Get(raw, "AttrStatus"))
       /\ Get(raw, "FromUserName") # StrV(SelfUserName)

\* C2: for an unsupported kind or condition forward() never calls the
\* destination or the downloader; without raise_for_unsupported it returns,
\* with it it raises NotImplementedError.
C2_UnsupportedNoSend ==
    C2_Unsupported =>
        /\ attempts = <<>>
        /\ downloads = <<>>
        /\ pc \in {"start", "returned", "raised"}
        /\ pc = "returned" => ~strict /\ exc = ""
        /\ pc = "raised" => strict /\ exc = "NotImplementedError"

\* C2 witness: a personal card of somebody else, forwarded in default mode
C2_Witness ==
    /\ type(raw) = CARD
    /\ C2_Unsupported
    /\ ~strict
    /\ pc = "returned"

\* the characters '{}'.format(self.text) yields for the payload
C3_Body == IF IsStr(Get(raw, "Text")) THEN Get(raw, "Text").s ELSE <<"N", "o", "n", "e">>

C3_Wrapped(body) ==
    (IF IsStr(prefix) /\ prefix.s # <<>> THEN prefix.s \o <<"\n">> ELSE <<>>)
    \o body
    \o (IF IsStr(suffix) /\ suffix.s # <<>> THEN <<"\n">> \o suffix.s ELSE <<>>)

\* C3: forwarding a Text message makes exactly one destination send, a text
\* send of prefix + line break + text + line break + suffix, where an absent
\* or empty prefix (suffix) is left out together with its line break.
C3_TextOneSend ==
    type(raw) = TEXT =>
        /\ Len(attempts) <= 1
        /\ Final =>
            /\ Len(attempts) = 1
            /\ attempts[1].m = "msg"
            /\ attempts[1].text = C3_Wrapped(C3_Body)
            /\ attempts[1].ok <=> pc = "returned"

\* C3 witness: "hi" forwarded with prefix "P" and suffix "S"
C3_Witness ==
    /\ type(raw) = TEXT
    /\ pc = "returned"
    /\ prefix = StrV(<<"P">>) /\ suffix = StrV(<<"S">>)
    /\ attempts = <<Attempt(Send("msg", <<"P", "\n", "h", "i", "\n", "S">>, 0, <<>>, "", None), TRUE)>>

\* the index of the first occurrence of a token, 0 when there is none
C4_IndexOf(content, tok) ==
    LET hits == {i \in 1..Len(content) : content[i] = tok}
    IN  IF hits = {} THEN 0 ELSE CHOOSE i \in hits : \A j \in hits : i <= j

\* what a reader of the envelope finds between two tags: character data
\* holding a bare "&" or "<" is not well formed
C4_Field(content, open, close) ==
    LET chars == SubSeq(content, C4_IndexOf(content, open) + 1, C4_IndexOf(content, close) - 1)
    IN  IF \E k \in 1..Len(chars) : chars[k] \in {"&", "<"} THEN <<"#malformed">> ELSE chars

\* the suffix of a file name without its leading dot
C4_Suffix(name) ==
    LET ext == SplitExt(name) IN IF ext # <<>> /\ Head(ext) = "." THEN Tail(ext) ELSE ext

\* C4: forwarding an Attachment message, for every Attachment payload,
\* makes exactly one raw send, to the attachment endpoint, whose envelope
\* reads back the view's file_name, file_size and media_id, and as file
\* extension the file name's suffix without the leading dot.
C4_AttachmentEnvelope ==
    (type(raw) = ATTACHMENT /\ Final /\ exc # TransportError) =>
        /\ pc = "returned"
        /\ Cardinality(Primaries) = 1
        /\ \A i \in Primaries :
            /\ attempts[i].m = "raw_msg"
            /\ attempts[i].uri = AppMsgUri
            /\ StrV(C4_Field(attempts[i].content, "<title>", "</title>")) = file_name(raw)
            /\ StrV(C4_Field(attempts[i].content, "<totallen>", "</totallen>")) = file_size(raw)
            /\ StrV(C4_Field(attempts[i].content, "<attachid>", "</attachid>")) = media_id(raw)
            /\ IsStr(file_name(raw))
            /\ C4_Field(attempts[i].content, "<fileext>", "</fileext>") = C4_Suffix(file_name(raw).s)

\* the characters of url() as the claim has it: the unescaped URL
C7_Url == IF IsStr(Get(raw, "Url")) THEN Unescape(Get(raw, "Url")).s ELSE PyFormat(Get(raw, "Url"))

\* C7: forwarding a Sharing message completes with exactly one destination
\* text send of text() + line break + url(), wrapped like a Text message;
\* url() returns for every payload, a str in the Url slot included.
C7_SharingOneSend ==
    (type(raw) = SHARING /\ Final /\ exc # TransportError) =>
        /\ pc = "returned"
        /\ Len(attempts) = 1
        /\ attempts[1].m = "msg"
        /\ attempts[1].text = C3_Wrapped(C3_Body \o <<"\n">> \o C7_Url)

C10_Downloaded ==
    \/ type(raw) \in {VIDEO, RECORDING}
    \/ type(raw) = PICTURE /\ ~Truthy(Get(raw, "HasProductId"))

C10_Method ==
    CASE type(raw) = PICTURE -> "image"
      [] type(raw) = VIDEO -> "video"
      [] OTHER -> "file"

C10_Inv ==
    C10_Downloaded =>
        /\ Len(downloads) <= 1
        /\ attempts # <<>> => Len(downloads) = 1 /\ downloads[1].ok
        /\ pc \in {"prefix", "primary", "suffix", "returned"} => Len(downloads) = 1 /\ downloads[1].ok
        /\ Cardinality(Primaries) <= 1
        /\ \A i \in Primaries : attempts[i].m = C10_Method /\ attempts[i].path = downloads[1].path
        /\ pc = "returned" => \E i \in Primaries : attempts[i].ok
        /\ (downloads # <<>> /\ ~downloads[1].ok) =>
              pc = "raised" /\ exc = TransportError /\ attempts = <<>>
        /\ (~Callable(Get(raw, "Text")) /\ pc \notin {"start", "download"}) =>
              pc = "raised" /\ exc = "ValueError" /\ attempts = <<>> /\ downloads = <<>>

\* the downloader is only ever handed a name the temporary directory did
\* not hold before, and that name is in the directory afterwards
C10_Fresh ==
    downloads' # downloads =>
        /\ downloads'[Len(downloads')].path \notin tempDir
        /\ downloads'[Len(downloads')].path \in tempDir'

\* C10: for a Picture that is no store sticker, a Video or a Recording the
\* file is downloaded once, into a freshly allocated temporary file, before
\* any destination send; one primary send follows, send_image for Picture,
\* send_video for Video, send_file for Recording; when the download fails,
\* or the Text slot holds no downloader, forward() raises and nothing is
\* sent.
C10_DownloadThenSend == []C10_Inv /\ [][C10_Fresh]_vars

\* C10 witness: a Recording went out through send_file after its download
C10_Witness ==
    /\ type(raw) = RECORDING
    /\ pc = "returned"
    /\ Len(downloads) = 1
    /\ \E i \in Primaries : attempts[i].m = "file" /\ attempts[i].ok

-----------------------------------------------------------------------------
(* Properties of Message objects in a set, checked under SpecViews *)

\* C5: equality and hash of Message objects are decided by the id alone:
\* objects over payloads with the same id are equal and hash alike, so a
\* set holds at most one of them, and objects with different ids differ.
C5_EqualById ==
    /\ \A a, b \in 1..Len(views) :
        /\ views[a] = views[b] => MessageEq(a, b) /\ MessageHash(a) = MessageHash(b)
        /\ views[a] # views[b] => ~MessageEq(a, b)
    /\ \A a, b \in msgSet : views[a] = views[b] => a = b

-----------------------------------------------------------------------------
(* Properties of Message.location, checked under SpecLocation *)

\* the payload has no location element to read: the sub-document is absent,
\* is no str, is malformed, or is well formed without the element
C6_NoLocation ==
    LET doc == raw.OriContent IN
    \/ doc.t # "str"
    \/ ~doc.wellformed
    \/ \A i \in 1..Len(doc.children) : doc.children[i].tag # "location"

\* C6: location() never raises; for a payload without a readable location
\* element it returns None.
C6_LocationTotal ==
    locResult.out # "pending" =>
        /\ locResult.out = "return"
        /\ C6_NoLocation => locResult.isNone

\* the attributes of the location element as the payload gives them
C9_Source ==
    LET doc == raw.OriContent IN doc.children[Find(doc.children, "location")].attrib

\* the number a numeric attribute string of the model denotes, as
\* <<mantissa, decimal places>>: "1" is 1, "1.5" is 15 / 10, "-2" is -2
C9_Number(chars) ==
    CASE chars = <<"1">> -> <<1, 0>>
      [] chars = <<"1", ".", "5">> -> <<15, 1>>
      [] chars = <<"-", "2">> -> <<-2, 0>>
      [] OTHER -> <<0, 0>>

\* the attribute can be coerced: a float for x and y, an integer for scale
\* and maptype
C9_Coercible(k) ==
    LET v == C9_Source[k] IN
    /\ v.t = "str"
    /\ IF k \in {"x", "y"}
       THEN v.s \in {<<"1">>, <<"1", ".", "5">>, <<"-", "2">>}
       ELSE v.s \in {<<"1">>, <<"-", "2">>}

\* the field of the returned record is the number the source denotes
C9_Numeric(k) ==
    LET v == locResult.rec[k] IN
    /\ v.t = (IF k \in {"x", "y"} THEN "float" ELSE "int")
    /\ <<v.n, v.e>> = C9_Number(C9_Source[k].s)

\* the field of the returned record is what the source held
C9_Kept(k) == locResult.rec[k] = C9_Source[k]

C9_Read == locResult.out # "pending" /\ ~C6_NoLocation

\* C9 as claimed: when the four coercions succeed the numeric fields equal
\* the source values; when any one fails, none of x, y, scale and maptype
\* is left coerced; the record is returned either way.
C9_AllOrNothing ==
    C9_Read =>
        /\ locResult.out = "return" /\ ~locResult.isNone
        /\ IF \A i \in 1..4 : C9_Coercible(LocationKeys[i])
           THEN \A i \in 1..4 : C9_Numeric(LocationKeys[i])
           ELSE \A i \in 1..4 : C9_Kept(LocationKeys[i])

\* C9 as amended: the coercions run in the order x, y, scale, maptype and
\* stop at the first that fails: the fields before it are numbers equal to
\* the source values, that field and the later ones keep the source value;
\* the record is returned either way, with label and poiname untouched.
C9_CoercedUpToFailure ==
    C9_Read =>
        /\ locResult.out = "return" /\ ~locResult.isNone
        /\ \A i \in 1..4 :
            IF \A j \in 1..i : C9_Coercible(LocationKeys[j])
            THEN C9_Numeric(LocationKeys[i])
            ELSE C9_Kept(LocationKeys[i])
        /\ C9_Kept("label") /\ C9_Kept("poiname")

\* C9 witness: x was coerced, y could not be, scale and maptype could have
C9_Witness ==
    /\ C9_Read
    /\ locResult.rec.x = FloatV(15, 1)
    /\ locResult.rec.y = StrV(<<"x">>)
    /\ locResult.rec.scale = StrV(<<"1">>)
    /\ locResult.rec.maptype = StrV(<<"-", "2">>)

-----------------------------------------------------------------------------
(* Properties of Message.sender / Message.receiver, checked under          *)
(* SpecResolve                                                             *)

\* the identifier the last call resolved
C8_Identifier ==
    IF resResult.who = "sender" THEN Get(raw, "FromUserName") ELSE Get(raw, "ToUserName")

C8_Members(chats) == {chats[i] : i \in 1..Len(chats)}
C8_Named(chats, un) == {c \in C8_Members(chats) : c.user_name = un}

C8_Inv ==
    (resResult.out # "pending" /\ IsStr(C8_Identifier) /\ C8_Identifier.s # <<>>) =>
        LET un == C8_Identifier.s
            bare == [user_name |-> un, kind |-> "chat", nick |-> ""]
        IN  /\ resResult.out = "return"
            /\ resResult.chat # NoChat
            /\ resResult.chat.user_name = un
            /\ IF Len(un) >= 2 /\ un[1] = "@" /\ un[2] = "@"
               THEN IF C8_Named(groups, un) # {}
                    THEN resResult.chat \in C8_Named(groups, un)
                    ELSE resResult.chat = bare
               ELSE IF C8_Named(friends, un) # {}
                    THEN resResult.chat \in C8_Named(friends, un)
                    ELSE IF C8_Named(mps, un) # {}
                         THEN resResult.chat \in C8_Named(mps, un)
                         ELSE resResult.chat = bare

C8_RosterKept == groups' = groups /\ friends' = friends /\ mps' = mps

\* C8: for a non-empty identifier sender() / receiver() return a chat and
\* never raise or return None: a group-prefixed ("@@") identifier gives the
\* known group of that name, any other the friend of that name and, only
\* when there is none, the official account of that name; an identifier
\* that matches nothing gives a bare reference holding only the
\* identifier; the rosters are left as they were.
C8_ResolutionTotal == []C8_Inv /\ [][C8_RosterKept]_vars

\* C8 witness: a name held by a friend and by an official account resolved
\* to the friend, for the receiver
C8_Witness ==
    /\ resResult.who = "receiver"
    /\ resResult.out = "return"
    /\ resResult.chat = Friend(<<"@", "a">>)
    /\ C8_Named(mps, <<"@", "a">>) # {}

====
